---- MODULE Spec2Model ----
(***************************************************************************)
(* Users / Tasks REST API (routes/users.js, routes/tasks.js).              *)
(*                                                                         *)
(* The document store holds two collections.  Every handler is a sequence  *)
(* of store calls (the awaits of the source); Step performs the next store *)
(* call of one request together with the local code that follows it.       *)
(* Every step of a specification is the arrival of a request, which runs   *)
(* the handler up to its first await, or the return of one awaited store   *)
(* call.  Spec interleaves the requests in flight at their awaits; SpecSeq *)
(* has one client that waits for the answer before it sends again.         *)
(***************************************************************************)
EXTENDS Integers, Sequences, FiniteSets, TLC

VARIABLES users, tasks, nextUser, nextTask, resp, served, proc, retry

vars == <<users, tasks, nextUser, nextTask, resp, served, proc, retry>>

(***************************************************************************)
(* Bounds of the model.                                                    *)
(***************************************************************************)
MaxUsers == 2
MaxTasks == 2
MaxPending == 2
MaxRequests == 4
MaxConcRequests == 2

(***************************************************************************)
(* Identifiers are generated by the store and never reused; the i-th       *)
(* generated identifier of a collection is the i-th element of its pool.   *)
(***************************************************************************)
UserIdPool == <<"u1", "u2", "u3", "u4">>
TaskIdPool == <<"t1", "t2", "t3", "t4">>

UserIds == {UserIdPool[i] : i \in 1..MaxUsers}
TaskIds == {TaskIdPool[i] : i \in 1..MaxTasks}

\* a request field that is absent from the body (JavaScript undefined)
Undefined == "<undefined>"

Unassigned == "unassigned"

Falsy(v) == v = Undefined \/ v = ""

(***************************************************************************)
(* Sequence helpers: Array.prototype.includes / filter, $addToSet, $pull.  *)
(***************************************************************************)
Includes(s, x) == \E i \in 1..Len(s) : s[i] = x

RECURSIVE FilterSeq(_, _)
FilterSeq(s, keep) ==
    IF s = <<>> THEN <<>>
    ELSE IF Head(s) \in keep THEN <<Head(s)>> \o FilterSeq(Tail(s), keep)
         ELSE FilterSeq(Tail(s), keep)

Elems(s) == {s[i] : i \in 1..Len(s)}

\* an add that adds nothing
KeepSet(s, x) == s

AddToSet(s, x) == IF Includes(s, x) THEN s ELSE Append(s, x)

\* a pull that removes nothing
PullNothing(s, x) == s

Pull(s, x) == FilterSeq(s, Elems(s) \ {x})

(***************************************************************************)
(* Documents.                                                              *)
(***************************************************************************)
NoDoc == [null |-> TRUE]

UserDoc(n, e, pt) == [name |-> n, email |-> e, pendingTasks |-> pt]

TaskDoc(n, d, c, au, aun) ==
    [name |-> n, deadline |-> d, completed |-> c,
     assignedUser |-> au, assignedUserName |-> aun]

Db(u, t, nu, nt) == [users |-> u, tasks |-> t, nextUser |-> nu, nextTask |-> nt]

(***************************************************************************)
(* Request bodies.  A request is a record                                  *)
(*   [op, id, name, email, pendingTasks, deadline, completed, assignedUser]*)
(* whose string fields are Undefined when the body omits them.             *)
(* pendingTasks and completed are JavaScript values of several types and   *)
(* carry their type.                                                       *)
(***************************************************************************)
JsUndefined == [type |-> "undefined"]
JsString(s) == [type |-> "string", s |-> s]
JsBoolean(b) == [type |-> "boolean", b |-> b]
JsArray(a) == [type |-> "array", a |-> a]

Request(op, id, name, email, pt, deadline, completed, assignedUser) ==
    [op |-> op, id |-> id, name |-> name, email |-> email, pendingTasks |-> pt,
     deadline |-> deadline, completed |-> completed, assignedUser |-> assignedUser]

(***************************************************************************)
(* The position of one request: the next store call (pc), the request, the *)
(* documents it has loaded, and its response once it is done.              *)
(***************************************************************************)
Idle == [pc |-> "idle", req |-> NoDoc, user |-> NoDoc, task |-> NoDoc,
         assignedUserName |-> "", taskId |-> "", status |-> 0, message |-> ""]

NewLoc(req) ==
    [pc |-> "begin", req |-> req, user |-> NoDoc, task |-> NoDoc,
     assignedUserName |-> "", taskId |-> "", status |-> 0, message |-> ""]

Goto(db, l, pc) == [db |-> db, loc |-> [l EXCEPT !.pc = pc]]

Respond(db, l, status, message) ==
    [db |-> db, loc |-> [l EXCEPT !.pc = "done", !.status = status, !.message = message]]

(***************************************************************************)
(* Document.save() of a loaded document writes the paths whose value the   *)
(* handler changed with respect to the loaded document.                    *)
(***************************************************************************)
Saved(stored, loaded, new) == IF new # loaded THEN new ELSE stored

SaveUser(stored, loaded, new) ==
    UserDoc(Saved(stored.name, loaded.name, new.name),
            Saved(stored.email, loaded.email, new.email),
            Saved(stored.pendingTasks, loaded.pendingTasks, new.pendingTasks))

SaveTask(stored, loaded, new) ==
    TaskDoc(Saved(stored.name, loaded.name, new.name),
            Saved(stored.deadline, loaded.deadline, new.deadline),
            Saved(stored.completed, loaded.completed, new.completed),
            Saved(stored.assignedUser, loaded.assignedUser, new.assignedUser),
            Saved(stored.assignedUserName, loaded.assignedUserName, new.assignedUserName))

\* req.body.pendingTasks || [] ; a value that is not an array is wrapped
NormalizePendingTasks(pt) ==
    IF pt.type = "undefined" THEN <<>>
    ELSE IF pt.type = "string" THEN (IF pt.s = "" THEN <<>> ELSE <<pt.s>>)
    ELSE pt.a

\* String.prototype.toLowerCase on the strings the requests use
ToLowerCase(s) ==
    CASE s = "TRUE" -> "true"
      [] s = "True" -> "true"
      [] s = "NO" -> "no"
      [] s = "A@x.io" -> "a@x.io"
      [] OTHER -> s

\* a lookup that folds case
FindOneByEmailIgnoreCase(db, email) ==
    \E u \in DOMAIN db.users : ToLowerCase(db.users[u].email) = ToLowerCase(email)

\* User.findOne({ email: email })
FindOneByEmail(db, email) == \E u \in DOMAIN db.users : db.users[u].email = email

\* User.findOne({ email: email, _id: { $ne: id } })
FindOneByEmailExcept(db, email, id) ==
    \E u \in DOMAIN db.users : u # id /\ db.users[u].email = email

\* a $set that leaves completed as it is
SetTaskAssignee(t, fields) ==
    TaskDoc(t.name, t.deadline, t.completed, fields.assignedUser, fields.assignedUserName)

\* { $set: fields } on a Task: the fields it names are replaced
SetTask(t, fields) ==
    TaskDoc(t.name, t.deadline,
            IF "completed" \in DOMAIN fields THEN fields.completed ELSE t.completed,
            fields.assignedUser, fields.assignedUserName)

\* Task.updateMany(filter, { $set: fields })
UpdateManyTasks(db, match, fields) ==
    [db EXCEPT !.tasks = [t \in DOMAIN db.tasks |->
        IF t \in match THEN SetTask(db.tasks[t], fields) ELSE db.tasks[t]]]

(***************************************************************************)
(* POST /users                                                             *)
(***************************************************************************)
\* save() of a new User: the store writes the one document; it serializes the
\* writes of a document and checks nothing across documents
InsertUser(db, id, doc) ==
    [db EXCEPT !.users = (id :> doc) @@ db.users, !.nextUser = db.nextUser + 1]

\* a creation that saves the User before it looks for the email
PostUsersSaveFirst(db, l) ==
    LET r == l.req IN
    CASE l.pc = "begin" ->
           IF Falsy(r.name) \/ Falsy(r.email)
           THEN Respond(db, l, 400, "Name and email are required")
           ELSE Goto(db, l, "save")
      [] l.pc = "save" ->
           LET id == UserIdPool[db.nextUser]
               doc == UserDoc(r.name, r.email, NormalizePendingTasks(r.pendingTasks))
           IN Goto(InsertUser(db, id, doc), l, "findOne")
      [] l.pc = "findOne" ->
           IF FindOneByEmailExcept(db, r.email, UserIdPool[db.nextUser - 1])
           THEN Respond(db, l, 400, "A user with that email already exists")
           ELSE Respond(db, l, 201, "User created")

PostUsers(db, l) ==
    LET r == l.req IN
    CASE l.pc = "begin" ->
           IF Falsy(r.name) \/ Falsy(r.email)
           THEN Respond(db, l, 400, "Name and email are required")
           ELSE Goto(db, l, "findOne")
      [] l.pc = "findOne" ->
           IF FindOneByEmail(db, r.email)
           THEN Respond(db, l, 400, "A user with that email already exists")
           ELSE Goto(db, l, "save")
      [] l.pc = "save" ->
           LET id == UserIdPool[db.nextUser]
               doc == UserDoc(r.name, r.email, NormalizePendingTasks(r.pendingTasks))
           IN Respond(InsertUser(db, id, doc), l, 201, "User created")

(***************************************************************************)
(* PUT /users/:id                                                          *)
(***************************************************************************)
TasksToAdd(new, old) == FilterSeq(new, Elems(new) \ Elems(old))

TasksToRemove(new, old) == FilterSeq(old, Elems(old) \ Elems(new))

\* a removal that clears every removed Task, whoever its assignee is
RemovedTasks(db, ids, id) == ids \cap DOMAIN db.tasks

\* the filter { _id: { $in: tasksToRemove }, assignedUser: userId }
RemovedTasksAssignedTo(db, ids, id) ==
    {t \in ids \cap DOMAIN db.tasks : db.tasks[t].assignedUser = id}

PutUsersAfterAdd(db, l, toRemove) ==
    IF toRemove # <<>> THEN Goto(db, l, "updateManyRemove")
    ELSE Respond(db, l, 200, "User updated")

PutUsers(db, l) ==
    LET r == l.req
        id == r.id
        newPendingTasks == NormalizePendingTasks(r.pendingTasks)
        oldPendingTasks == l.user.pendingTasks
        tasksToAdd == TasksToAdd(newPendingTasks, oldPendingTasks)
        tasksToRemove == TasksToRemove(newPendingTasks, oldPendingTasks)
    IN
    CASE l.pc = "begin" ->
           IF Falsy(r.name) \/ Falsy(r.email)
           THEN Respond(db, l, 400, "Name and email are required")
           ELSE Goto(db, l, "findById")
      [] l.pc = "findById" ->
           IF id \notin DOMAIN db.users
           THEN Respond(db, l, 404, "User not found")
           ELSE Goto(db, [l EXCEPT !.user = db.users[id]], "findOne")
      [] l.pc = "findOne" ->
           IF FindOneByEmailExcept(db, r.email, id)
           THEN Respond(db, l, 400, "A user with that email already exists")
           ELSE Goto(db, l, "save")
      [] l.pc = "save" ->
           IF id \notin DOMAIN db.users
           THEN Respond(db, l, 500, "Server Error")
           ELSE LET new == UserDoc(r.name, r.email, newPendingTasks)
                    db2 == [db EXCEPT !.users[id] = SaveUser(db.users[id], l.user, new)]
                IN IF tasksToAdd # <<>> THEN Goto(db2, l, "updateManyAdd")
                   ELSE PutUsersAfterAdd(db2, l, tasksToRemove)
      [] l.pc = "updateManyAdd" ->
           LET set == [assignedUser |-> id, assignedUserName |-> r.name,
                       completed |-> FALSE]
               db2 == UpdateManyTasks(db, Elems(tasksToAdd), set)
           IN PutUsersAfterAdd(db2, l, tasksToRemove)
      [] l.pc = "updateManyRemove" ->
           LET set == [assignedUser |-> "", assignedUserName |-> Unassigned]
               match == RemovedTasksAssignedTo(db, Elems(tasksToRemove), id)
               db2 == UpdateManyTasks(db, match, set)
           IN Respond(db2, l, 200, "User updated")

(***************************************************************************)
(* DELETE /users/:id                                                       *)
(***************************************************************************)
\* a cascade that skips the completed Tasks
OpenTasksOfUser(db, id) ==
    {t \in DOMAIN db.tasks : db.tasks[t].assignedUser = id /\ ~db.tasks[t].completed}

\* the filter { assignedUser: id }
TasksOfUser(db, id) == {t \in DOMAIN db.tasks : db.tasks[t].assignedUser = id}

DeleteUsers(db, l) ==
    LET id == l.req.id IN
    CASE l.pc = "begin" -> Goto(db, l, "findById")
      [] l.pc = "findById" ->
           IF id \notin DOMAIN db.users
           THEN Respond(db, l, 404, "User not found")
           ELSE Goto(db, [l EXCEPT !.user = db.users[id]], "updateMany")
      [] l.pc = "updateMany" ->
           LET set == [assignedUser |-> "", assignedUserName |-> Unassigned]
           IN Goto(UpdateManyTasks(db, TasksOfUser(db, id), set), l, "deleteOne")
      [] l.pc = "deleteOne" ->
           LET db2 == [db EXCEPT !.users = [u \in DOMAIN db.users \ {id} |-> db.users[u]]]
           IN Respond(db2, l, 200, "User deleted")

(***************************************************************************)
(* Task helpers.                                                           *)
(***************************************************************************)
\* a parse that defaults to false, as on creation
parseBooleanDefaultFalse(val, defaultVal) ==
    IF val.type = "undefined" THEN FALSE
    ELSE IF val.type = "boolean" THEN val.b
    ELSE IF val.type = "string" THEN ToLowerCase(val.s) = "true"
    ELSE FALSE

\* a parse that takes booleans only
parseBooleanOnly(val, defaultVal) ==
    IF val.type = "boolean" THEN val.b ELSE defaultVal

parseBoolean(val, defaultVal) ==
    IF val.type = "undefined" THEN defaultVal
    ELSE IF val.type = "boolean" THEN val.b
    ELSE IF val.type = "string" THEN ToLowerCase(val.s) = "true"
    ELSE defaultVal

\* Number(deadline) on the strings the requests use; NaN otherwise
NumericStrings == {"86400000"}

NumberOf(s) == CASE s = "86400000" -> 86400000 [] OTHER -> 0

\* new Date(string) on the strings the requests use; an invalid date otherwise
DateStrings == {"1970-01-02"}

DateParse(s) == CASE s = "1970-01-02" -> 86400000 [] OTHER -> 0

\* lines 74-78: the instant of the deadline, valid = ~isNaN(deadline.getTime())
ParseDeadline(d) ==
    IF d \in NumericStrings THEN [valid |-> TRUE, time |-> NumberOf(d)]
    ELSE IF d \in DateStrings THEN [valid |-> TRUE, time |-> DateParse(d)]
    ELSE [valid |-> FALSE, time |-> 0]

\* User.findByIdAndUpdate(id, { $addToSet / $pull : { pendingTasks: taskId } })
FindByIdAndUpdate(db, id, update) ==
    IF id \in DOMAIN db.users
    THEN [db EXCEPT !.users[id].pendingTasks =
             IF update.op = "$addToSet" THEN AddToSet(@, update.pendingTasks)
             ELSE Pull(@, update.pendingTasks)]
    ELSE db

(***************************************************************************)
(* POST /tasks                                                             *)
(***************************************************************************)
PostTasks(db, l) ==
    LET r == l.req
        deadline == ParseDeadline(r.deadline)
        completed == parseBoolean(r.completed, FALSE)
        assignedUser == IF Falsy(r.assignedUser) THEN "" ELSE r.assignedUser
    IN
    CASE l.pc = "begin" ->
           IF Falsy(r.name) \/ Falsy(r.deadline)
           THEN Respond(db, l, 400, "Task name and deadline are required")
           ELSE IF ~deadline.valid
           THEN Respond(db, l, 400, "Invalid deadline date")
           ELSE IF assignedUser # ""
           THEN Goto(db, l, "findById")
           ELSE Goto(db, [l EXCEPT !.assignedUserName = Unassigned], "save")
      [] l.pc = "findById" ->
           IF assignedUser \notin DOMAIN db.users
           THEN Respond(db, l, 400, "Assigned user not found")
           ELSE Goto(db, [l EXCEPT !.assignedUserName = db.users[assignedUser].name], "save")
      [] l.pc = "save" ->
           LET id == TaskIdPool[db.nextTask]
               doc == TaskDoc(r.name, deadline.time, completed, assignedUser, l.assignedUserName)
               db2 == [db EXCEPT !.tasks = (id :> doc) @@ db.tasks,
                                 !.nextTask = db.nextTask + 1]
               l2 == [l EXCEPT !.taskId = id]
           IN IF assignedUser # "" /\ ~completed
              THEN Goto(db2, l2, "addToSet")
              ELSE Respond(db2, l2, 201, "Task created")
      [] l.pc = "addToSet" ->
           LET add == [op |-> "$addToSet", pendingTasks |-> l.taskId]
           IN Respond(FindByIdAndUpdate(db, assignedUser, add), l, 201, "Task created")

(***************************************************************************)
(* PUT /tasks/:id                                                          *)
(***************************************************************************)
\* a removal that forgets the Tasks that were completed before
ShouldRemoveUnlessWasCompleted(oldAssignedUser, assignedUser, oldCompleted, completed) ==
    oldAssignedUser # assignedUser \/ completed \/ assignedUser = ""

\* a removal on reassignment only
ShouldRemoveOnReassign(oldAssignedUser, assignedUser, oldCompleted, completed) ==
    oldAssignedUser # assignedUser

ShouldRemove(oldAssignedUser, assignedUser, oldCompleted, completed) ==
    oldAssignedUser # assignedUser \/ oldCompleted \/ completed \/ assignedUser = ""

\* an update that never adds the Task to its assignee
PutTasksWithoutAdd(db, l, assignedUser, completed) ==
    Respond(db, l, 200, "Task updated")

PutTasksAfterPull(db, l, assignedUser, completed) ==
    IF assignedUser # "" /\ ~completed
    THEN Goto(db, l, "addToSet")
    ELSE Respond(db, l, 200, "Task updated")

PutTasks(db, l) ==
    LET r == l.req
        id == r.id
        deadline == ParseDeadline(r.deadline)
        oldAssignedUser == l.task.assignedUser
        oldCompleted == l.task.completed
        completed == parseBoolean(r.completed, oldCompleted)
        bodyAssignedUser == IF r.assignedUser # Undefined THEN r.assignedUser
                            ELSE oldAssignedUser
        assignedUser == IF Falsy(bodyAssignedUser) THEN "" ELSE bodyAssignedUser
    IN
    CASE l.pc = "begin" -> Goto(db, l, "findTask")
      [] l.pc = "findTask" ->
           IF id \notin DOMAIN db.tasks
           THEN Respond(db, l, 404, "Task not found")
           ELSE LET l2 == [l EXCEPT !.task = db.tasks[id]]
                    old == db.tasks[id].assignedUser
                    body == IF r.assignedUser # Undefined THEN r.assignedUser ELSE old
                IN IF Falsy(r.name) \/ Falsy(r.deadline)
                   THEN Respond(db, l2, 400, "Task name and deadline are required")
                   ELSE IF ~deadline.valid
                   THEN Respond(db, l2, 400, "Invalid deadline date")
                   ELSE IF Falsy(body)
                   THEN Goto(db, [l2 EXCEPT !.assignedUserName = Unassigned], "save")
                   ELSE Goto(db, l2, "findUser")
      [] l.pc = "findUser" ->
           IF assignedUser \notin DOMAIN db.users
           THEN Respond(db, l, 400, "Assigned user not found")
           ELSE Goto(db, [l EXCEPT !.assignedUserName = db.users[assignedUser].name], "save")
      [] l.pc = "save" ->
           IF id \notin DOMAIN db.tasks
           THEN Respond(db, l, 500, "Server Error")
           ELSE LET new == TaskDoc(r.name, deadline.time, completed, assignedUser,
                                   l.assignedUserName)
                    db2 == [db EXCEPT !.tasks[id] = SaveTask(db.tasks[id], l.task, new)]
                    l2 == [l EXCEPT !.taskId = id]
                IN IF oldAssignedUser # "" /\
                      ShouldRemove(oldAssignedUser, assignedUser, oldCompleted, completed)
                   THEN Goto(db2, l2, "pull")
                   ELSE PutTasksAfterPull(db2, l2, assignedUser, completed)
      [] l.pc = "pull" ->
           LET pull == [op |-> "$pull", pendingTasks |-> l.taskId]
           IN PutTasksAfterPull(FindByIdAndUpdate(db, oldAssignedUser, pull), l,
                                assignedUser, completed)
      [] l.pc = "addToSet" ->
           LET add == [op |-> "$addToSet", pendingTasks |-> l.taskId]
           IN Respond(FindByIdAndUpdate(db, assignedUser, add), l, 200, "Task updated")

(***************************************************************************)
(* DELETE /tasks/:id                                                       *)
(***************************************************************************)
DeleteTasks(db, l) ==
    LET id == l.req.id IN
    CASE l.pc = "begin" -> Goto(db, l, "findById")
      [] l.pc = "findById" ->
           IF id \notin DOMAIN db.tasks
           THEN Respond(db, l, 404, "Task not found")
           ELSE LET l2 == [l EXCEPT !.task = db.tasks[id]]
                IN IF db.tasks[id].assignedUser # ""
                   THEN Goto(db, l2, "pull")
                   ELSE Goto(db, l2, "deleteOne")
      [] l.pc = "pull" ->
           LET pull == [op |-> "$pull", pendingTasks |-> id]
           IN Goto(FindByIdAndUpdate(db, l.task.assignedUser, pull), l, "deleteOne")
      [] l.pc = "deleteOne" ->
           LET db2 == [db EXCEPT !.tasks = [t \in DOMAIN db.tasks \ {id} |-> db.tasks[t]]]
           IN Respond(db2, l, 200, "Task deleted")

(***************************************************************************)
(* One store call of a request, and a request run to its response.         *)
(***************************************************************************)
Step(db, l) ==
    CASE l.req.op = "POST /users" -> PostUsers(db, l)
      [] l.req.op = "PUT /users/:id" -> PutUsers(db, l)
      [] l.req.op = "DELETE /users/:id" -> DeleteUsers(db, l)
      [] l.req.op = "POST /tasks" -> PostTasks(db, l)
      [] l.req.op = "PUT /tasks/:id" -> PutTasks(db, l)
      [] l.req.op = "DELETE /tasks/:id" -> DeleteTasks(db, l)

RECURSIVE RunFrom(_)
RunFrom(st) == IF st.loc.pc = "done" THEN st ELSE RunFrom(Step(st.db, st.loc))

Run(db, req) == RunFrom([db |-> db, loc |-> NewLoc(req)])

\* the request run up to the store call pc (or to its response, if it makes none)
RECURSIVE RunFromUntil(_, _)
RunFromUntil(st, pc) ==
    IF st.loc.pc \in {pc, "done"} THEN st ELSE RunFromUntil(Step(st.db, st.loc), pc)

RunUntil(db, req, pc) == RunFromUntil([db |-> db, loc |-> NewLoc(req)], pc)

(***************************************************************************)
(* The requests clients send.                                              *)
(***************************************************************************)
UserNames == {"ann", "bob"}

Emails == {"a@x.io", "A@x.io"}

\* name and email of a User body: the valid ones, and each way to omit one
ValidUserBodies == UserNames \X Emails

InvalidUserBodies ==
    {<<"", "a@x.io">>, <<Undefined, "a@x.io">>, <<"ann", "">>, <<"ann", Undefined>>}

\* name and deadline of a Task body: the valid ones, and each invalid one
ValidTaskBodies == {<<"task", "86400000">>}

OtherTaskBodies ==
    {<<"task", "1970-01-02">>,
     <<"", "86400000">>, <<Undefined, "86400000">>,
     <<"task", "">>, <<"task", Undefined>>, <<"task", "not-a-date">>}

CompletedValues == {JsUndefined, JsBoolean(TRUE), JsBoolean(FALSE)}

CompletedStrings == {JsString("TRUE"), JsString("NO")}

AssignedUserValues == {Undefined, ""} \cup UserIds

\* identifiers of the Tasks created so far (stored or deleted)
IssuedTaskIds == {TaskIdPool[i] : i \in 1..(nextTask - 1)}

PendingTasksArrays(lo, hi) ==
    {JsArray(a) : a \in UNION {[1..k -> IssuedTaskIds] : k \in lo..hi}}

PendingTasksScalars == {JsUndefined} \cup {JsString(t) : t \in IssuedTaskIds \cup {""}}

UserRequest(op, id, b, pt) ==
    Request(op, id, b[1], b[2], pt, Undefined, JsUndefined, Undefined)

TaskRequest(op, id, b, c, au) ==
    Request(op, id, b[1], Undefined, JsUndefined, b[2], c, au)

\* the bodies of POST /users and PUT /users/:id: every valid name and email with
\* the pendingTasks arrays of at most one id, one name and email with the longer
\* arrays and with the values that are no array, and the invalid bodies
UserWrites(op, id) ==
    {UserRequest(op, id, b, pt) : b \in ValidUserBodies, pt \in PendingTasksArrays(0, 1)}
    \cup {UserRequest(op, id, <<"ann", "a@x.io">>, pt) :
             pt \in PendingTasksArrays(2, MaxPending) \cup PendingTasksScalars}
    \cup {UserRequest(op, id, b, JsUndefined) : b \in InvalidUserBodies}

\* the bodies of POST /tasks and PUT /tasks/:id
TaskWrites(op, id) ==
    {TaskRequest(op, id, b, c, au) :
        b \in ValidTaskBodies, c \in CompletedValues, au \in AssignedUserValues}
    \cup {TaskRequest(op, id, b, c, Undefined) : b \in ValidTaskBodies, c \in CompletedStrings}
    \cup {TaskRequest(op, id, b, JsUndefined, Undefined) : b \in OtherTaskBodies}

(***************************************************************************)
(* State.                                                                  *)
(***************************************************************************)
Procs == {"p1", "p2"}

CurrentDb == Db(users, tasks, nextUser, nextTask)

NoResp == [op |-> "", status |-> 0, message |-> ""]

EmptyDb == Db(<<>>, <<>>, 1, 1)

\* a store the requests reach from the empty one: two Users, one open Task of
\* the first
SeededDb ==
    Db("u1" :> UserDoc("ann", "a@x.io", <<"t1">>) @@ "u2" :> UserDoc("bob", "A@x.io", <<>>),
       "t1" :> TaskDoc("task", 86400000, FALSE, "u1", "ann"),
       3, 2)

Init ==
    /\ \E db \in {EmptyDb, SeededDb} :
          /\ users = db.users
          /\ tasks = db.tasks
          /\ nextUser = db.nextUser
          /\ nextTask = db.nextTask
    /\ resp = NoResp
    /\ served = 0
    /\ proc = [p \in Procs |-> Idle]
    /\ retry = Idle

SetDb(db) ==
    /\ users' = db.users
    /\ tasks' = db.tasks
    /\ nextUser' = db.nextUser
    /\ nextTask' = db.nextTask

InFlight(op) == Cardinality({p \in Procs : proc[p].pc # "idle" /\ proc[p].req.op = op})

Quiescent == \A p \in Procs : proc[p].pc = "idle"

\* a handler has run up to its next await, or to its response; with the
\* response the process is free again
Advance(p, st) ==
    /\ SetDb(st.db)
    /\ IF st.loc.pc = "done"
       THEN /\ resp' = [op |-> st.loc.req.op, status |-> st.loc.status,
                        message |-> st.loc.message]
            /\ proc' = [proc EXCEPT ![p] = Idle]
       ELSE /\ resp' = resp
            /\ proc' = [proc EXCEPT ![p] = st.loc]

\* a request arrives: the handler runs the code before its first await
Arrive(p, reqs) ==
    /\ proc[p].pc = "idle"
    /\ served' = served + 1
    /\ retry' = Idle
    /\ \E req \in reqs : Advance(p, Step(CurrentDb, NewLoc(req)))

POST_users(p) ==
    /\ nextUser + InFlight("POST /users") <= MaxUsers
    /\ Arrive(p, UserWrites("POST /users", ""))

PUT_users(p) ==
    \E id \in UserIds : Arrive(p, UserWrites("PUT /users/:id", id))

DELETE_users(p) ==
    \E id \in UserIds :
        Arrive(p, {UserRequest("DELETE /users/:id", id, <<Undefined, Undefined>>, JsUndefined)})

POST_tasks(p) ==
    /\ nextTask + InFlight("POST /tasks") <= MaxTasks
    /\ Arrive(p, TaskWrites("POST /tasks", ""))

PUT_tasks(p) ==
    \E id \in TaskIds : Arrive(p, TaskWrites("PUT /tasks/:id", id))

DELETE_tasks(p) ==
    \E id \in TaskIds :
        Arrive(p, {TaskRequest("DELETE /tasks/:id", id, <<Undefined, Undefined>>,
                               JsUndefined, Undefined)})

\* the store call a handler awaits returns, and the handler runs up to its next
\* await or to its response
StoreCall(p) ==
    /\ proc[p].pc # "idle"
    /\ served' = served
    /\ retry' = retry
    /\ Advance(p, Step(CurrentDb, proc[p]))

(***************************************************************************)
(* The program: requests arrive while others are in flight, and the store  *)
(* calls of the requests in flight return in any order.                    *)
(***************************************************************************)
Next ==
    \E p \in Procs :
        \/ served < MaxConcRequests /\ POST_users(p)
        \/ served < MaxConcRequests /\ PUT_users(p)
        \/ served < MaxConcRequests /\ DELETE_users(p)
        \/ served < MaxConcRequests /\ POST_tasks(p)
        \/ served < MaxConcRequests /\ PUT_tasks(p)
        \/ served < MaxConcRequests /\ DELETE_tasks(p)
        \/ StoreCall(p)

Spec == Init /\ [][Next]_vars

(***************************************************************************)
(* The program with one client that sends a request when the one before    *)
(* has been answered: no two requests are in flight.                       *)
(***************************************************************************)
InitSeq ==
    /\ users = <<>>
    /\ tasks = <<>>
    /\ nextUser = 1
    /\ nextTask = 1
    /\ resp = NoResp
    /\ served = 0
    /\ proc = [p \in Procs |-> Idle]
    /\ retry = Idle

Accepting == Quiescent /\ served < MaxRequests

NextSeq ==
    \/ Accepting /\ POST_users("p1")
    \/ Accepting /\ PUT_users("p1")
    \/ Accepting /\ DELETE_users("p1")
    \/ Accepting /\ POST_tasks("p1")
    \/ Accepting /\ PUT_tasks("p1")
    \/ Accepting /\ DELETE_tasks("p1")
    \/ StoreCall("p1")

SpecSeq == InitSeq /\ [][NextSeq]_vars

(***************************************************************************)
(* The pending index.                                                      *)
(***************************************************************************)
PendingOf(db, u) == Elems(db.users[u].pendingTasks)

\* the stored Tasks that are open and assigned to u
OpenTasksAssignedTo(db, u) ==
    {t \in DOMAIN db.tasks : db.tasks[t].assignedUser = u /\ ~db.tasks[t].completed}

\* every open Task with an assignee is in the pendingTasks of that User
IndexComplete(db) ==
    \A t \in DOMAIN db.tasks :
        LET u == db.tasks[t].assignedUser IN
        (u # "" /\ ~db.tasks[t].completed) => (u \in DOMAIN db.users /\ t \in PendingOf(db, u))

\* a completed or unassigned Task is in no User's pendingTasks
IndexSound(db) ==
    \A t \in DOMAIN db.tasks :
        (db.tasks[t].completed \/ db.tasks[t].assignedUser = "")
            => \A u \in DOMAIN db.users : t \notin PendingOf(db, u)

\* C1: after any sequence of completed User and Task requests from the empty
\* store, every stored Task that is open and assigned to a User U has its id in
\* the pendingTasks of U.
C1_PendingComplete == Quiescent => IndexComplete(CurrentDb)

\* C1 witness: a PUT /users/:id has just taken an open Task over from another
\* User; the Task is in the pendingTasks of its new assignee (and still listed by
\* the former one).
C1_Witness ==
    /\ Quiescent
    /\ resp.op = "PUT /users/:id" /\ resp.status = 200
    /\ \E t \in DOMAIN tasks, u1 \in DOMAIN users, u2 \in DOMAIN users :
          /\ u1 # u2
          /\ tasks[t].assignedUser = u2 /\ ~tasks[t].completed
          /\ t \in PendingOf(CurrentDb, u2)
          /\ t \in PendingOf(CurrentDb, u1)

\* C2: after any sequence of completed User and Task requests from the empty
\* store, no User's pendingTasks contains the id of a stored Task that is
\* completed or unassigned.
C2_PendingSound == Quiescent => IndexSound(CurrentDb)

\* C5: every stored Task has assignedUserName equal to the current name of the
\* User its assignedUser references, or "unassigned" when assignedUser is empty.
C5_NameDenormalized ==
    Quiescent =>
        \A t \in DOMAIN tasks :
            IF tasks[t].assignedUser = ""
            THEN tasks[t].assignedUserName = Unassigned
            ELSE /\ tasks[t].assignedUser \in DOMAIN users
                 /\ tasks[t].assignedUserName = users[tasks[t].assignedUser].name

PendingOrNone(db, u) == IF u \in DOMAIN db.users THEN PendingOf(db, u) ELSE {}

(***************************************************************************)
(* Task requests alone, on Users that have no pending Tasks yet.           *)
(***************************************************************************)
FirstUserIds(k) == {UserIdPool[i] : i \in 1..k}

SeedUserDocs == {UserDoc("ann", "a@x.io", <<>>), UserDoc("bob", "A@x.io", <<>>)}

InitTasks ==
    /\ \E k \in 0..MaxUsers :
          /\ nextUser = k + 1
          /\ users \in {f \in [FirstUserIds(k) -> SeedUserDocs] :
                          \A u1, u2 \in FirstUserIds(k) : u1 # u2 => f[u1].email # f[u2].email}
    /\ tasks = <<>>
    /\ nextTask = 1
    /\ resp = NoResp
    /\ served = 0
    /\ proc = [p \in Procs |-> Idle]
    /\ retry = Idle

NextTasks ==
    \/ Accepting /\ POST_tasks("p1")
    \/ Accepting /\ PUT_tasks("p1")
    \/ Accepting /\ DELETE_tasks("p1")
    \/ StoreCall("p1")

SpecTasks == InitTasks /\ [][NextTasks]_vars

\* C3: from Users with empty pendingTasks and no Tasks, after any sequence of
\* Task POST / PUT / DELETE requests the ids in the pendingTasks of every User U
\* are exactly the ids of the stored Tasks that are open and assigned to U.
C3_PendingExact ==
    Quiescent =>
        \A u \in DOMAIN users : PendingOf(CurrentDb, u) = OpenTasksAssignedTo(CurrentDb, u)

\* C3 witness: after a PUT /tasks/:id some User has an open Task and a completed
\* Task assigned, and lists the open one alone.
C3_Witness ==
    /\ Quiescent
    /\ resp.op = "PUT /tasks/:id" /\ resp.status = 200
    /\ \E u \in DOMAIN users, t1 \in DOMAIN tasks, t2 \in DOMAIN tasks :
          /\ tasks[t1].assignedUser = u /\ ~tasks[t1].completed
          /\ tasks[t2].assignedUser = u /\ tasks[t2].completed
          /\ users[u].pendingTasks = <<t1>>

(***************************************************************************)
(* Claims about one request: in every reachable state that still accepts a *)
(* request, the request is run on the current store and its response and   *)
(* the store it leaves are compared with the store it found.               *)
(***************************************************************************)

DuplicateEmailMessage == "A user with that email already exists"

\* C6: POST /users with non-empty name and email answers the duplicate-email 400
\* and stores nothing if and only if a stored User has exactly that email;
\* otherwise it answers 201 and stores exactly one new User with that name and
\* email.
C6_PostUsersOutcome ==
    (Accepting /\ nextUser <= MaxUsers) =>
    \A req \in UserWrites("POST /users", "") :
        (~Falsy(req.name) /\ ~Falsy(req.email)) =>
            LET st == Run(CurrentDb, req)
                dup == \E u \in DOMAIN users : users[u].email = req.email
            IN IF dup
               THEN /\ st.loc.status = 400
                    /\ st.loc.message = DuplicateEmailMessage
                    /\ st.db = CurrentDb
               ELSE /\ st.loc.status = 201
                    /\ st.db.tasks = tasks
                    /\ \E id \in DOMAIN st.db.users \ DOMAIN users :
                          /\ DOMAIN st.db.users = DOMAIN users \cup {id}
                          /\ st.db.users[id].name = req.name
                          /\ st.db.users[id].email = req.email
                    /\ \A u \in DOMAIN users : st.db.users[u] = users[u]

\* C6 witness: a User with email "a@x.io" is stored and none with "A@x.io"; the
\* POST with "a@x.io" is refused and the POST with "A@x.io" creates a User.
C6_Witness ==
    /\ nextUser <= MaxUsers /\ Accepting
    /\ \E u \in DOMAIN users : users[u].email = "a@x.io"
    /\ \A u \in DOMAIN users : users[u].email # "A@x.io"
    /\ Run(CurrentDb, UserRequest("POST /users", "", <<"bob", "a@x.io">>, JsArray(<<>>))).loc.status = 400
    /\ Run(CurrentDb, UserRequest("POST /users", "", <<"bob", "A@x.io">>, JsArray(<<>>))).loc.status = 201

DeleteUserRequest(id) ==
    UserRequest("DELETE /users/:id", id, <<Undefined, Undefined>>, JsUndefined)

Unassign(t) == TaskDoc(t.name, t.deadline, t.completed, "", Unassigned)

\* C8: DELETE /users/:id of a stored User U answers 200; every Task that was
\* assigned to U, completed or not, is unassigned and otherwise unchanged; U is
\* no longer stored; the Tasks are written while U is still stored and the
\* removal of U writes no Task; the other Tasks and Users are unchanged.
C8_DeleteUserCascade ==
    Accepting =>
    \A id \in DOMAIN users :
        LET req == DeleteUserRequest(id)
            mid == RunUntil(CurrentDb, req, "deleteOne")
            st == Run(CurrentDb, req)
        IN /\ st.loc.status = 200
           /\ DOMAIN st.db.users = DOMAIN users \ {id}
           /\ \A u \in DOMAIN users \ {id} : st.db.users[u] = users[u]
           /\ DOMAIN st.db.tasks = DOMAIN tasks
           /\ \A t \in DOMAIN tasks :
                 st.db.tasks[t] = IF tasks[t].assignedUser = id THEN Unassign(tasks[t])
                                  ELSE tasks[t]
           /\ mid.loc.pc = "deleteOne"
           /\ id \in DOMAIN mid.db.users
           /\ mid.db.tasks = st.db.tasks

\* C8 witness: a stored User has a completed Task and an open Task assigned, and
\* the DELETE of that User unassigns the completed Task.
C8_Witness ==
    /\ Accepting
    /\ \E id \in DOMAIN users, t1 \in DOMAIN tasks, t2 \in DOMAIN tasks :
          /\ tasks[t1].assignedUser = id /\ tasks[t1].completed
          /\ tasks[t2].assignedUser = id /\ ~tasks[t2].completed
          /\ Run(CurrentDb, DeleteUserRequest(id)).db.tasks[t1].assignedUser = ""

PutTaskRequests(id) == TaskWrites("PUT /tasks/:id", id)

\* C9: a successful PUT /tasks/:id on a Task T with prior assignee U1 performs
\* the removal of T.id from U1.pendingTasks unless the assignee is unchanged and
\* T was open and remains open, and T.id is absent from U1.pendingTasks right
\* after the removal; at the response T.id is in the pendingTasks of the new
\* assignee whenever there is one and T is not completed, and it is absent from
\* U1.pendingTasks whenever T is completed or has another assignee (so a
\* reassignment of an open T from U1 to U2 leaves it out of U1's and in U2's).
C9_PutTaskReconciles ==
    Accepting =>
    \A id \in DOMAIN tasks : \A req \in PutTaskRequests(id) :
        LET old == tasks[id]
            U1 == old.assignedUser
            st == Run(CurrentDb, req)
            mid == RunUntil(CurrentDb, req, "pull")
            new == st.db.tasks[id]
            U2 == new.assignedUser
            kept == U2 = U1 /\ ~old.completed /\ ~new.completed
        IN (U1 # "" /\ st.loc.status = 200) =>
              /\ (mid.loc.pc = "pull") <=> ~kept
              /\ (mid.loc.pc = "pull") =>
                    id \notin PendingOrNone(Step(mid.db, mid.loc).db, U1)
              /\ (U2 # "" /\ ~new.completed) => id \in PendingOrNone(st.db, U2)
              /\ (U2 # U1 \/ new.completed) => id \notin PendingOrNone(st.db, U1)

\* C9 witness: an open Task is assigned to U1 and listed by U1; the PUT that
\* assigns it to another stored User U2 answers 200 and leaves it out of
\* U1.pendingTasks and in U2.pendingTasks.
C9_Witness ==
    /\ Accepting
    /\ \E id \in DOMAIN tasks, U2 \in DOMAIN users :
          LET U1 == tasks[id].assignedUser
              st == Run(CurrentDb, TaskRequest("PUT /tasks/:id", id, <<"task", "86400000">>,
                                               JsUndefined, U2))
          IN /\ U1 \in DOMAIN users /\ U1 # U2 /\ ~tasks[id].completed
             /\ id \in PendingOf(CurrentDb, U1)
             /\ st.loc.status = 200
             /\ id \notin PendingOf(st.db, U1)
             /\ id \in PendingOf(st.db, U2)

CompletedTrue == {JsBoolean(TRUE), JsString("TRUE")}

\* C10: a successful PUT /tasks/:id with completed = true and no assignedUser
\* field, on a Task T that was open and assigned to U, removes T.id from
\* U.pendingTasks, stores T as completed and leaves T.assignedUser = U with
\* T.assignedUserName the name of U.
C10_CompletingKeepsAssignee ==
    Accepting =>
    \A id \in DOMAIN tasks : \A req \in PutTaskRequests(id) :
        LET U == tasks[id].assignedUser
            st == Run(CurrentDb, req)
        IN (/\ req.completed \in CompletedTrue
            /\ req.assignedUser = Undefined
            /\ U # "" /\ ~tasks[id].completed
            /\ st.loc.status = 200) =>
              /\ id \notin PendingOrNone(st.db, U)
              /\ st.db.tasks[id].completed
              /\ st.db.tasks[id].assignedUser = U
              /\ U \in DOMAIN st.db.users
              /\ st.db.tasks[id].assignedUserName = st.db.users[U].name

\* C10 witness: an open Task is assigned to U and listed by U; the PUT with
\* completed = "TRUE" and no assignedUser answers 200 and takes it off the list.
C10_Witness ==
    /\ Accepting
    /\ \E id \in DOMAIN tasks :
          LET U == tasks[id].assignedUser
              st == Run(CurrentDb, TaskRequest("PUT /tasks/:id", id, <<"task", "86400000">>,
                                               JsString("TRUE"), Undefined))
          IN /\ U \in DOMAIN users /\ ~tasks[id].completed
             /\ id \in PendingOf(CurrentDb, U)
             /\ st.loc.status = 200
             /\ st.db.tasks[id].completed
             /\ id \notin PendingOf(st.db, U)

(***************************************************************************)
(* Requests in flight together.                                            *)
(***************************************************************************)

\* C4: with requests interleaved at the granularity of store calls, in every
\* state where no request is in flight an open Task assigned to U is in
\* U.pendingTasks and a completed or unassigned Task is in no User's
\* pendingTasks.
C4_QuiescentConsistent ==
    Quiescent => (IndexComplete(CurrentDb) /\ IndexSound(CurrentDb))

\* C7: no two stored Users have the same email, also when POST /users and
\* PUT /users/:id are interleaved at the granularity of store calls.
C7_EmailUnique ==
    \A u1 \in DOMAIN users, u2 \in DOMAIN users :
        u1 # u2 => users[u1].email # users[u2].email

(***************************************************************************)
(* PUT /users/:id and the Tasks its pendingTasks adds and removes.         *)
(***************************************************************************)
PutUserRequests(id) == UserWrites("PUT /users/:id", id)

NewPending(req) == Elems(NormalizePendingTasks(req.pendingTasks))

\* C11: after a successful PUT /users/:id on User U, every stored Task whose id
\* is in the new pendingTasks and was not in the old one is open, assigned to U
\* and carries the new name of U, whatever it was before; a Task whose id is in
\* both lists is not written.
C11_PutUsersAddedIds ==
    Accepting =>
    \A id \in DOMAIN users : \A req \in PutUserRequests(id) :
        LET st == Run(CurrentDb, req)
            old == PendingOf(CurrentDb, id)
            new == NewPending(req)
        IN st.loc.status = 200 =>
              /\ \A t \in (new \ old) \cap DOMAIN tasks :
                    st.db.tasks[t] = TaskDoc(tasks[t].name, tasks[t].deadline, FALSE, id, req.name)
              /\ \A t \in (new \cap old) \cap DOMAIN tasks : st.db.tasks[t] = tasks[t]

\* C11 witness: a completed Task is assigned to another User; the PUT that
\* renames U to "bob" and lists the Task answers 200 and leaves the Task open,
\* assigned to U and named "bob".
C11_Witness ==
    /\ Accepting
    /\ \E id \in DOMAIN users, t \in DOMAIN tasks :
          LET st == Run(CurrentDb, UserRequest("PUT /users/:id", id,
                                               <<"bob", users[id].email>>, JsArray(<<t>>)))
          IN /\ users[id].name = "ann"
             /\ tasks[t].completed /\ tasks[t].assignedUser \notin {"", id}
             /\ t \notin PendingOf(CurrentDb, id)
             /\ st.loc.status = 200
             /\ ~st.db.tasks[t].completed
             /\ st.db.tasks[t].assignedUser = id
             /\ st.db.tasks[t].assignedUserName = "bob"

\* C12: after a successful PUT /users/:id on User U, a stored Task whose id was
\* in the old pendingTasks and is not in the new one is unassigned (assignedUser
\* "", assignedUserName "unassigned") when its assignedUser was U at the time of
\* the write, and is left as it was when it was assigned to anyone else.
C12_PutUsersRemovedIdsGuard ==
    Accepting =>
    \A id \in DOMAIN users : \A req \in PutUserRequests(id) :
        LET st == Run(CurrentDb, req)
            mid == RunUntil(CurrentDb, req, "updateManyRemove")
            old == PendingOf(CurrentDb, id)
            new == NewPending(req)
        IN st.loc.status = 200 =>
              \A t \in (old \ new) \cap DOMAIN tasks :
                  /\ mid.loc.pc = "updateManyRemove"
                  /\ IF mid.db.tasks[t].assignedUser = id
                     THEN st.db.tasks[t] = Unassign(mid.db.tasks[t])
                     ELSE st.db.tasks[t] = tasks[t]

\* C12 witness: U lists a Task that is assigned to another User; the PUT that
\* empties the pendingTasks of U answers 200 and the Task keeps its assignee.
C12_Witness ==
    /\ Accepting
    /\ \E id \in DOMAIN users, t \in DOMAIN tasks :
          LET st == Run(CurrentDb, UserRequest("PUT /users/:id", id,
                                               <<users[id].name, users[id].email>>,
                                               JsArray(<<>>)))
          IN /\ t \in PendingOf(CurrentDb, id)
             /\ tasks[t].assignedUser \notin {"", id}
             /\ st.loc.status = 200
             /\ st.db.tasks[t] = tasks[t]

(***************************************************************************)
(* POST /tasks and the assignee of the new Task.                           *)
(***************************************************************************)
PostTaskRequests == TaskWrites("POST /tasks", "")

BodyAssignedUser(req) == IF Falsy(req.assignedUser) THEN "" ELSE req.assignedUser

\* C13: POST /tasks with a valid name and deadline and a non-empty assignedUser
\* that is no stored User answers 400 and leaves the store as it was; with a
\* stored assignee U it answers 201, stores one Task with assignedUser U and
\* assignedUserName the name of U, and adds its id to U.pendingTasks if and only
\* if the Task is stored open (U is not written otherwise); with no assignee it
\* answers 201, stores one Task with assignedUser "" and assignedUserName
\* "unassigned" and writes no User.  The other Tasks and Users are unchanged.
C13_PostTasksAssignment ==
    (Accepting /\ nextTask <= MaxTasks) =>
    \A req \in PostTaskRequests :
        LET st == Run(CurrentDb, req)
            au == BodyAssignedUser(req)
            id == TaskIdPool[nextTask]
        IN (<<req.name, req.deadline>> \in ValidTaskBodies) =>
           IF au # "" /\ au \notin DOMAIN users
           THEN /\ st.loc.status = 400
                /\ st.loc.message = "Assigned user not found"
                /\ st.db = CurrentDb
           ELSE /\ st.loc.status = 201
                /\ DOMAIN st.db.tasks = DOMAIN tasks \cup {id}
                /\ id \notin DOMAIN tasks
                /\ \A t \in DOMAIN tasks : st.db.tasks[t] = tasks[t]
                /\ st.db.tasks[id].assignedUser = au
                /\ req.completed.type = "boolean" => st.db.tasks[id].completed = req.completed.b
                /\ req.completed.type = "undefined" => ~st.db.tasks[id].completed
                /\ DOMAIN st.db.users = DOMAIN users
                /\ \A u \in DOMAIN users \ {au} : st.db.users[u] = users[u]
                /\ IF au = ""
                   THEN st.db.tasks[id].assignedUserName = Unassigned
                   ELSE /\ st.db.tasks[id].assignedUserName = users[au].name
                        /\ id \in PendingOf(st.db, au) <=> ~st.db.tasks[id].completed
                        /\ st.db.tasks[id].completed => st.db.users[au] = users[au]
                        /\ st.db.users[au].name = users[au].name
                        /\ st.db.users[au].email = users[au].email
                        /\ PendingOf(st.db, au) \ {id} = PendingOf(CurrentDb, au)

\* C13 witness: one User is stored and another id references no User; the POST
\* assigned to the stored User adds the new id to its pendingTasks, the
\* completed one does not, and the POST assigned to the other id answers 400.
C13_Witness ==
    /\ Accepting /\ nextTask <= MaxTasks
    /\ \E u \in DOMAIN users, v \in UserIds \ DOMAIN users :
          LET id == TaskIdPool[nextTask]
              post(c, au) == Run(CurrentDb, TaskRequest("POST /tasks", "", <<"task", "86400000">>, c, au))
          IN /\ post(JsUndefined, u).loc.status = 201
             /\ id \in PendingOf(post(JsUndefined, u).db, u)
             /\ post(JsBoolean(TRUE), u).loc.status = 201
             /\ id \notin PendingOf(post(JsBoolean(TRUE), u).db, u)
             /\ post(JsUndefined, v).loc.status = 400

(***************************************************************************)
(* GET /users and GET /tasks: the list routes.  A query is a record        *)
(*   [where, sort, select, filter, count]                                  *)
(* of strings, Undefined for a parameter the URL omits; skip and limit are *)
(* omitted.                                                                *)
(***************************************************************************)
JsNull == [type |-> "null"]

JsObject == [type |-> "object"]

\* JSON.parse on the strings the queries use; ok = FALSE when it throws
JSONParse(s) ==
    CASE s = "{}" -> [ok |-> TRUE, value |-> JsObject]
      [] s = "null" -> [ok |-> TRUE, value |-> JsNull]
      [] OTHER -> [ok |-> FALSE, value |-> JsNull]

parseJSONParam(param) ==
    IF Falsy(param) THEN JsNull
    ELSE IF JSONParse(param).ok THEN JSONParse(param).value
    ELSE JsNull

\* JavaScript truthiness of a parsed parameter, and a || b
Truthy(v) == v.type = "object"

OrElse(a, b) == IF Truthy(a) THEN a ELSE b

DefaultTaskLimit == 100

Limit(items, n) == IF Len(items) <= n THEN items ELSE SubSeq(items, 1, n)

\* find({}) of a collection, in the order of the identifiers
FindAll(db, coll) ==
    IF coll = "users" THEN FilterSeq(UserIdPool, DOMAIN db.users)
    ELSE Limit(FilterSeq(TaskIdPool, DOMAIN db.tasks), DefaultTaskLimit)

CountDocuments(db, coll) ==
    IF coll = "users" THEN Cardinality(DOMAIN db.users) ELSE Cardinality(DOMAIN db.tasks)

ListData(items) == [kind |-> "list", items |-> items]

BadRequest(param) ==
    [status |-> 400, message |-> "Bad Request: invalid JSON in '" \o param \o "'",
     data |-> ListData(<<>>)]

\* the handler of GET /users (coll = "users") and GET /tasks (coll = "tasks")
GetList(db, coll, query) ==
    LET where == OrElse(parseJSONParam(query.where), JsObject)
        sort == parseJSONParam(query.sort)
        select == OrElse(parseJSONParam(query.select), parseJSONParam(query.filter))
    IN IF ~Falsy(query.where) /\ ~Truthy(where) THEN BadRequest("where")
       ELSE IF ~Falsy(query.sort) /\ ~Truthy(sort) THEN BadRequest("sort")
       ELSE IF (~Falsy(query.select) \/ ~Falsy(query.filter)) /\ ~Truthy(select)
       THEN BadRequest("select/filter")
       ELSE IF query.count = "true"
       THEN [status |-> 200, message |-> "OK",
             data |-> [kind |-> "count", n |-> CountDocuments(db, coll)]]
       ELSE [status |-> 200, message |-> "OK", data |-> ListData(FindAll(db, coll))]

JsonParams == {Undefined, "", "notjson", "{}", "null"}

ListQueries ==
    [where : JsonParams, sort : JsonParams \ {""}, select : JsonParams \ {"null"},
     filter : {Undefined, "notjson", "{}"}, count : {Undefined, "true"}]

InitList ==
    /\ \E db \in {EmptyDb, SeededDb} :
          /\ users = db.users
          /\ tasks = db.tasks
          /\ nextUser = db.nextUser
          /\ nextTask = db.nextTask
    /\ resp = NoResp
    /\ served = 0
    /\ proc = [p \in Procs |-> Idle]
    /\ retry = Idle

\* a list request: the store is read, never written
Get(op, coll) ==
    \E query \in ListQueries :
        LET r == GetList(CurrentDb, coll, query) IN
        /\ resp' = [op |-> op, status |-> r.status, message |-> r.message,
                    data |-> r.data, query |-> query]
        /\ UNCHANGED <<users, tasks, nextUser, nextTask, served, proc, retry>>

GET_users == Get("GET /users", "users")

GET_tasks == Get("GET /tasks", "tasks")

NextList ==
    \/ GET_users
    \/ GET_tasks

SpecList == InitList /\ [][NextList]_vars

\* a parameter that was supplied, is not empty and is not valid JSON
Malformed(param) == ~Falsy(param) /\ ~JSONParse(param).ok

\* C14: a GET /users or GET /tasks whose where, sort, select or filter parameter
\* is supplied, non-empty and not valid JSON answers 400 with an empty data
\* list, and the message names that parameter when no other one is supplied.
C14_ListParamValidation ==
    resp.op \in {"GET /users", "GET /tasks"} =>
        LET q == resp.query
            names(p) == resp.message = "Bad Request: invalid JSON in '" \o p \o "'"
            alone(p) == \A o \in {"where", "sort", "select", "filter"} \ {p} : Falsy(q[o])
        IN /\ (Malformed(q.where) \/ Malformed(q.sort) \/ Malformed(q.select)
                    \/ Malformed(q.filter))
                 => (resp.status = 400 /\ resp.data = ListData(<<>>))
           /\ (Malformed(q.where) /\ alone("where")) => names("where")
           /\ (Malformed(q.sort) /\ alone("sort")) => names("sort")
           /\ (Malformed(q.select) /\ alone("select")) => names("select/filter")
           /\ (Malformed(q.filter) /\ alone("filter")) => names("select/filter")

(***************************************************************************)
(* A PUT /tasks/:id that fails after the Task is saved, and its retry.     *)
(* The store call the handler awaits throws: the writes made before it     *)
(* stay, the catch block answers 500, and the client sends the same        *)
(* request again.  retry keeps the failed request: its pc is the store     *)
(* call that failed until the request is sent again, and "resent" from     *)
(* then until another request arrives.                                     *)
(***************************************************************************)
FailurePoints == {"pull", "addToSet"}

NoFailure == retry.pc \notin FailurePoints

\* the awaited pendingTasks write of a PUT /tasks/:id throws
PUT_tasks_fails(p) ==
    /\ proc[p].pc \in FailurePoints
    /\ proc[p].req.op = "PUT /tasks/:id"
    /\ retry.pc = "idle"
    /\ resp' = [op |-> proc[p].req.op, status |-> 500, message |-> "Server Error"]
    /\ retry' = proc[p]
    /\ proc' = [proc EXCEPT ![p] = Idle]
    /\ UNCHANGED <<users, tasks, nextUser, nextTask, served>>

\* the client sends the failed request again
PUT_tasks_retry(p) ==
    /\ proc[p].pc = "idle"
    /\ ~NoFailure
    /\ served' = served
    /\ retry' = [pc |-> "resent", req |-> retry.req, user |-> retry.user,
                 task |-> retry.task, assignedUserName |-> retry.assignedUserName,
                 taskId |-> retry.taskId, status |-> retry.status,
                 message |-> retry.message]
    /\ Advance(p, Step(CurrentDb, NewLoc(retry.req)))

NextRetry ==
    \/ NoFailure /\ NextTasks
    \/ PUT_tasks_fails("p1")
    \/ PUT_tasks_retry("p1")

SpecRetry == InitTasks /\ [][NextRetry]_vars

\* C15: when a PUT /tasks/:id has failed after saving the Task and before its
\* pendingTasks writes were done, and the same request has then run to its
\* response with no request in between, the id of the Task is in the
\* pendingTasks of its assignee alone if the Task is open and assigned, and in
\* no User's pendingTasks otherwise.
C15_RetryConverges ==
    (Quiescent /\ retry.pc = "resent" /\ resp.status = 200) =>
        LET id == retry.req.id IN
        \A u \in DOMAIN users :
            id \in PendingOf(CurrentDb, u)
                <=> (~tasks[id].completed /\ tasks[id].assignedUser = u)

(***************************************************************************)
(* PUT /tasks/:id: the fields the request omits.                           *)
(***************************************************************************)
\* C16: a PUT /tasks/:id with a valid name and deadline that omits assignedUser
\* or sends it empty answers 200; a successful PUT that omits completed keeps
\* the completed of the Task; one that omits assignedUser keeps the assignee,
\* which is a stored User; one that sends an empty assignedUser leaves the Task
\* with assignedUser "" and assignedUserName "unassigned", and its id out of the
\* pendingTasks of the former assignee.
C16_PutTasksDefaults ==
    Accepting =>
    \A id \in DOMAIN tasks : \A req \in PutTaskRequests(id) :
        LET old == tasks[id]
            st == Run(CurrentDb, req)
            new == st.db.tasks[id]
        IN /\ (<<req.name, req.deadline>> \in ValidTaskBodies
                  /\ req.assignedUser \in {Undefined, ""}) => st.loc.status = 200
           /\ st.loc.status = 200 =>
                 /\ req.completed = JsUndefined => new.completed = old.completed
                 /\ req.assignedUser = Undefined =>
                       /\ new.assignedUser = old.assignedUser
                       /\ old.assignedUser # "" => old.assignedUser \in DOMAIN st.db.users
                 /\ req.assignedUser = "" =>
                       /\ new.assignedUser = ""
                       /\ new.assignedUserName = Unassigned
                       /\ id \notin PendingOrNone(st.db, old.assignedUser)

\* C16 witness: a completed Task is assigned to a stored User, and the PUT that
\* omits completed and assignedUser leaves it completed with that assignee; an
\* open Task is listed by its assignee, and the PUT with an empty assignedUser
\* unassigns it and takes it off the list.
C16_Witness ==
    /\ Accepting
    /\ \E id \in DOMAIN tasks :
          LET st == Run(CurrentDb, TaskRequest("PUT /tasks/:id", id, <<"task", "86400000">>,
                                               JsUndefined, Undefined))
          IN /\ tasks[id].completed /\ tasks[id].assignedUser \in DOMAIN users
             /\ st.loc.status = 200
             /\ st.db.tasks[id].completed
             /\ st.db.tasks[id].assignedUser = tasks[id].assignedUser
    /\ \E id \in DOMAIN tasks :
          LET U == tasks[id].assignedUser
              st == Run(CurrentDb, TaskRequest("PUT /tasks/:id", id, <<"task", "86400000">>,
                                               JsUndefined, ""))
          IN /\ ~tasks[id].completed /\ U \in DOMAIN users
             /\ id \in PendingOf(CurrentDb, U)
             /\ st.loc.status = 200
             /\ st.db.tasks[id].assignedUser = ""
             /\ id \notin PendingOf(st.db, U)

(***************************************************************************)
(* DELETE /tasks/:id                                                       *)
(***************************************************************************)
DeleteTaskRequest(id) ==
    TaskRequest("DELETE /tasks/:id", id, <<Undefined, Undefined>>, JsUndefined, Undefined)

\* C17: DELETE /tasks/:id of a stored Task T answers 200; when T has an assignee
\* the id of T is removed from the pendingTasks of the assignee while T is still
\* stored, and T is removed after that; at the response T is not stored, the
\* pendingTasks of the assignee is the former one without the id of T, and every
\* other Task, every other User and the name and email of the assignee are
\* unchanged.  DELETE of an id that is not stored answers 404 and changes
\* nothing.
C17_DeleteTask ==
    Accepting =>
    \A id \in TaskIds :
        LET req == DeleteTaskRequest(id)
            st == Run(CurrentDb, req)
            mid == RunUntil(CurrentDb, req, "deleteOne")
        IN IF id \notin DOMAIN tasks
           THEN st.loc.status = 404 /\ st.db = CurrentDb
           ELSE LET U == tasks[id].assignedUser IN
                /\ st.loc.status = 200
                /\ mid.loc.pc = "deleteOne"
                /\ mid.db.tasks = tasks
                /\ mid.db.users = st.db.users
                /\ DOMAIN st.db.tasks = DOMAIN tasks \ {id}
                /\ \A t \in DOMAIN tasks \ {id} : st.db.tasks[t] = tasks[t]
                /\ DOMAIN st.db.users = DOMAIN users
                /\ \A u \in DOMAIN users \ {U} : st.db.users[u] = users[u]
                /\ U \in DOMAIN users =>
                      /\ st.db.users[U].name = users[U].name
                      /\ st.db.users[U].email = users[U].email
                      /\ st.db.users[U].pendingTasks =
                            FilterSeq(users[U].pendingTasks, TaskIds \ {id})

\* C17 witness: a stored Task is listed by its assignee, and its DELETE answers
\* 200 and leaves it neither stored nor listed; another id is not stored and its
\* DELETE answers 404.
C17_Witness ==
    /\ Accepting
    /\ \E id \in DOMAIN tasks, other \in TaskIds \ DOMAIN tasks :
          LET U == tasks[id].assignedUser
              st == Run(CurrentDb, DeleteTaskRequest(id))
          IN /\ U \in DOMAIN users
             /\ id \in PendingOf(CurrentDb, U)
             /\ st.loc.status = 200
             /\ id \notin DOMAIN st.db.tasks
             /\ id \notin PendingOf(st.db, U)
             /\ Run(CurrentDb, DeleteTaskRequest(other)).loc.status = 404

(***************************************************************************)
(* pendingTasks as a set.                                                  *)
(***************************************************************************)
\* C18: no User's pendingTasks holds the same Task id more than once.
C18_PendingDuplicateFree ==
    \A u \in DOMAIN users :
        Cardinality(Elems(users[u].pendingTasks)) = Len(users[u].pendingTasks)

(***************************************************************************)
(* Rejected requests.                                                      *)
(***************************************************************************)
AllRequests ==
    (IF nextUser + InFlight("POST /users") <= MaxUsers
     THEN UserWrites("POST /users", "") ELSE {})
    \cup UNION {UserWrites("PUT /users/:id", id) : id \in UserIds}
    \cup {DeleteUserRequest(id) : id \in UserIds}
    \cup (IF nextTask + InFlight("POST /tasks") <= MaxTasks
          THEN TaskWrites("POST /tasks", "") ELSE {})
    \cup UNION {TaskWrites("PUT /tasks/:id", id) : id \in TaskIds}
    \cup {DeleteTaskRequest(id) : id \in TaskIds}

\* C19: a User or Task request that answers 400 or 404 leaves the Users, the
\* Tasks and all their fields as they were before the request.
C19_RejectedNoEffect ==
    Accepting =>
        \A req \in AllRequests :
            LET st == Run(CurrentDb, req) IN
            st.loc.status \in {400, 404} => st.db = CurrentDb

\* C19 witness: on a store that holds Users and Tasks, a PUT /users/:id is
\* refused for a duplicate email, a PUT /tasks/:id of a stored Task is refused
\* and a DELETE /tasks/:id finds no Task.
C19_Witness ==
    /\ Accepting
    /\ users # <<>>
    /\ tasks # <<>>
    /\ \E id \in DOMAIN users : \E req \in PutUserRequests(id) :
          LET st == Run(CurrentDb, req) IN
          /\ st.loc.status = 400
          /\ st.loc.message = DuplicateEmailMessage
    /\ \E id \in DOMAIN tasks : \E req \in PutTaskRequests(id) :
          LET st == Run(CurrentDb, req) IN
          st.loc.status = 400
    /\ \E id \in TaskIds \ DOMAIN tasks :
          Run(CurrentDb, DeleteTaskRequest(id)).loc.status = 404

(***************************************************************************)
(* The assignee of a Task and the stored Users.                            *)
(***************************************************************************)
\* C20: in every state where no request is in flight, every stored Task with a
\* non-empty assignedUser references a stored User, also when the requests are
\* interleaved at the granularity of store calls.
C20_NoDanglingAssignee ==
    Quiescent =>
        \A t \in DOMAIN tasks :
            tasks[t].assignedUser # "" => tasks[t].assignedUser \in DOMAIN users

====
